---- MODULE Spec2Model ----
(***************************************************************************)
(* The AR car scanner screen (component Home) as a state machine.          *)
(*                                                                         *)
(* Three revisions of the screen exist in the repository:                  *)
(*   "placement"  src/unnamed/part_000          (tap-to-place cars)        *)
(*   "tracking"   src/src/app/page.tsx 1-1145   (threshold 0.35)           *)
(*   "basic"      src/src/app/page.tsx 1146-1989 (threshold 0.5)           *)
(* The revision is fixed in the initial state.                             *)
(*                                                                         *)
(* React semantics assumed: a handler's state updates, the re-render and   *)
(* the effects whose dependencies changed (cleanup, then body) form one    *)
(* step; a closure sees the state values of the render that created it;    *)
(* state updates of an unmounted component are dropped.  Every await is a  *)
(* separate step.  Numbers are exact rationals (n, d), not floats.         *)
(***************************************************************************)
EXTENDS Integers, Sequences, FiniteSets, TLC

\* ---------------------------------------------------------------- bounds
MaxStale    == 1   \* torn-down loop instances whose detector call is still pending
MaxCamCalls == 2   \* startCamera invocations pending at once
MaxStreams  == 3   \* camera streams granted in one run
MaxPlaced   == 2   \* placed cars in the list
MaxClock    == 1   \* largest value of the clock read by Date.now()
InnerWidth  == 1280
InnerHeight == 960
VideoWidth  == 640
VideoHeight == 480

Revisions == {"placement", "tracking", "basic"}

\* ---------------------------------------------------------------- values
Null == [null |-> TRUE]

RECURSIVE GCD(_, _)
GCD(a, b) == IF b = 0 THEN a ELSE GCD(b, a % b)

\* the rational n/d in lowest terms (d > 0, n >= 0)
Frac(n, d) == LET g == GCD(n, d) IN [n |-> n \div g, d |-> d \div g]

FracLess(p, q) == p.n * q.d < q.n * p.d
FracMin(p, q) == IF FracLess(q, p) THEN q ELSE p
FracMax(p, q) == IF FracLess(p, q) THEN q ELSE p

FracAdd(p, q) == Frac(p.n * q.d + q.n * p.d, p.d * q.d)
FracSub(p, q) == Frac(p.n * q.d - q.n * p.d, p.d * q.d)
FracMul(p, q) == Frac(p.n * q.n, p.d * q.d)

Prediction(c, s, b) == [class |-> c, score |-> s, bbox |-> b]

\* detector outputs tried by the model; scores are in hundredths
BoxA == <<100, 50, 200, 100>>
BoxB == <<320, 240, 160, 192>>
PersonCarTruck == << Prediction("person", 90, <<0, 0, 50, 100>>),
                     Prediction("car", 40, BoxA),
                     Prediction("truck", 60, BoxB) >>

VehicleClasses == {"car", "truck", "bus", "motorcycle"}
ThresholdLow  == 35
ThresholdHigh == 50
Threshold(r) == IF r = "basic" THEN ThresholdHigh ELSE ThresholdLow

\* vehicles whose scores are exactly the two thresholds
AtThreshold == << Prediction("car", ThresholdLow, BoxA),
                 Prediction("bus", ThresholdHigh, BoxB) >>
PredictionLists == { << >>, PersonCarTruck, AtThreshold }

Palette == <<15158332, 3447003, 15965202, 10181046, 47252, 7101671>>
RandomIndexes == {0, 5}        \* values of Math.floor(Math.random() * 6) tried
TapYs == {300, 700}            \* clientY of the taps tried
EventKinds == {"click", "touchend"}
TapX == 640

VARIABLES
  rev,            \* which revision of the screen runs
  mounted,        \* the component is mounted
  now,            \* the clock read by Date.now()
  isLoading, error, model, isScanning, arMode, detectedCar, carPosition,
  stream,
  placementMode, placedCars, showFloorGrid, floorLevel,
  loops,          \* instances of the detection-loop effect
  canvasDrawn,    \* the annotation canvas holds a drawn box
  initPc,         \* position of init(): "camera", "model", "done", "failed"
  cams,           \* pending startCamera invocations
  granted,        \* number of streams getUserMedia has granted
  liveTracks,     \* streams whose tracks are not stopped
  videoSrc,       \* video.srcObject (0: none)
  metaFired,      \* loadedmetadata was dispatched for videoSrc
  metaOwner,      \* the startCamera call whose handler is video.onloadedmetadata
  readyState4,    \* video.readyState = 4
  rejected,       \* the last step was a caught rejection of model.detect (history)
  lost            \* the last step was a cycle that selected no detection (history)

reactState == <<isLoading, error, model, isScanning, arMode, detectedCar, carPosition,
                stream, placementMode, placedCars, showFloorGrid, floorLevel>>
cameraVars == <<initPc, cams, granted, liveTracks, videoSrc, metaFired, metaOwner, readyState4>>
vars == <<rev, mounted, now, reactState, loops, canvasDrawn, cameraVars, rejected, lost>>

Mode == IF arMode THEN (IF isScanning THEN "Both" ELSE "Locked")
        ELSE (IF isScanning THEN "Scanning" ELSE "Idle")

\* the main screen (video, canvas, buttons) is rendered: refs are non-null
MainScreen == mounted /\ error = Null /\ ~isLoading

\* a state setter: dropped once the component is unmounted
SetState(old, new) == IF mounted THEN new ELSE old

\* ------------------------------------------------------- detection loop
\* slot 0 holds the current instance of the effect; the other slots hold
\* instances React has cleaned up that still have a call or callback pending
LoopSlots == 0..MaxStale
StaleSlots == LoopSlots \ {0}

\* a slot holding no instance (or one that ended with nothing pending)
FreeLoop == [pc |-> "free", running |-> FALSE, animSet |-> FALSE,
             isScanning |-> FALSE, arMode |-> FALSE, torn |-> FALSE]

\* a fresh instance of the effect: running = true, animationId unassigned,
\* isScanning and arMode as the render that created it saw them
NewLoop(isS, arM) == [pc |-> "free", running |-> TRUE, animSet |-> FALSE,
                      isScanning |-> isS, arMode |-> arM, torn |-> FALSE]

Normalise(l) == IF l.pc = "free" THEN FreeLoop ELSE l

\* the instance React has not cleaned up and that has a callback or call pending
Live(l) == l.pc # "free" /\ ~l.torn

\* detect() without the readyState test before the detector call
MutDetectIgnoreReady(l, refs, ready) ==
  IF ~l.running \/ ~refs THEN [l EXCEPT !.pc = "free"]
  ELSE [l EXCEPT !.pc = "await"]

\* detect() up to its first suspension.  pc: "frame" = a requestAnimationFrame
\* callback is pending, "await" = a model.detect call is pending
Detect(l, refs, ready) ==
  IF ~l.running \/ ~refs THEN [l EXCEPT !.pc = "free"]
  ELSE IF ~ready THEN [l EXCEPT !.pc = "frame", !.animSet = TRUE]
  ELSE [l EXCEPT !.pc = "await"]

\* the rest of detect() after the try/catch: if (running) requestAnimationFrame
Reschedule(l) ==
  IF l.running THEN [l EXCEPT !.pc = "frame", !.animSet = TRUE]
  ELSE [l EXCEPT !.pc = "free"]

\* a cleanup that cancels the frame callback but forgets running = false
MutCleanupKeepRunning(l) ==
  [l EXCEPT !.pc = IF l.animSet /\ l.pc = "frame" THEN "free" ELSE l.pc]

\* the cleanup returned by the effect
Cleanup(l) ==
  [l EXCEPT !.running = FALSE,
            !.pc = IF l.animSet /\ l.pc = "frame" THEN "free" ELSE l.pc]

FreeSlots(ls) == {k \in StaleSlots : ls[k].pc = "free"}
MinOf(S) == CHOOSE i \in S : \A j \in S : i <= j

\* the current instance after its cleanup ran
TornDown(ls) == Normalise([Cleanup(ls[0]) EXCEPT !.torn = ls[0].pc # "free"])

\* React runs the cleanup of the current instance; what it leaves pending
\* lives on in a free slot
EffectCleanup(ls) ==
  IF TornDown(ls).pc = "free" THEN [ls EXCEPT ![0] = FreeLoop]
  ELSE [ls EXCEPT ![0] = FreeLoop, ![MinOf(FreeSlots(ls))] = TornDown(ls)]

\* the model has a slot for what the cleanup leaves pending
CanTearDown(ls) == TornDown(ls).pc # "free" => FreeSlots(ls) # {}

\* the effect body without its early return on !isScanning && !arMode
MutEffectBodyNoModeGuard(ls, m, refs, isS, arM, ready) ==
  IF m = Null \/ ~refs THEN ls
  ELSE [ls EXCEPT ![0] = Normalise(Detect(NewLoop(isS, arM), refs, ready))]

\* the body of the detection-loop effect, which ends by calling detect()
EffectBody(ls, m, refs, isS, arM, ready) ==
  IF m = Null \/ ~refs THEN ls
  ELSE IF ~isS /\ ~arM THEN ls
  ELSE [ls EXCEPT ![0] = Normalise(Detect(NewLoop(isS, arM), refs, ready))]

\* commit of a render: the effect re-runs iff [isScanning, arMode, model] changed
DepsChanged(isS, arM, m) == <<isS, arM, m>> # <<isScanning, arMode, model>>

LoopsAfterCommit(isS, arM, m, refs) ==
  IF DepsChanged(isS, arM, m)
  THEN EffectBody(EffectCleanup(loops), m, refs, isS, arM, readyState4)
  ELSE loops

CommitPossible(isS, arM, m) == DepsChanged(isS, arM, m) => CanTearDown(loops)

\* the instances whose model.detect call is pending
PendingIn(ls) == {i \in LoopSlots : ls[i].pc = "await"}

\* a model.detect call was issued between ls and ls2 (no step both issues a
\* call and completes one)
Issued(ls, ls2) == Cardinality(PendingIn(ls2)) > Cardinality(PendingIn(ls))

\* canvas.width = video.videoWidth resets the canvas before a call is issued
CanvasAfterIssue(ls, ls2) == IF Issued(ls, ls2) THEN FALSE ELSE canvasDrawn

\* ------------------------------------------------------------- initial
Loaded == [base |-> "lite_mobilenet_v2"]
CameraError == [message |-> "Cannot access camera. Please allow camera permission."]
ModelError == [message |-> "Failed to load AI model."]

CamSlots == 1..MaxCamCalls
FreeCam == [pc |-> "free", init |-> FALSE, s |-> 0]

Init ==
  /\ rev \in Revisions
  /\ mounted = TRUE
  /\ now = 0
  /\ isLoading = TRUE
  /\ error = Null
  /\ model = Null
  /\ isScanning = FALSE
  /\ arMode = FALSE
  /\ detectedCar = Null
  /\ carPosition = Null
  /\ stream = 0
  /\ placementMode = FALSE
  /\ placedCars = << >>
  /\ showFloorGrid = FALSE
  /\ floorLevel = Frac(7, 10)
  /\ loops = [i \in LoopSlots |-> FreeLoop]
  /\ canvasDrawn = FALSE
  /\ initPc = "camera"
  /\ cams = [c \in CamSlots |-> IF c = 1 THEN [pc |-> "gum", init |-> TRUE, s |-> 0]
                                        ELSE FreeCam]
  /\ granted = 0
  /\ liveTracks = {}
  /\ videoSrc = 0
  /\ metaFired = FALSE
  /\ metaOwner = 0
  /\ readyState4 = FALSE
  /\ rejected = FALSE
  /\ lost = FALSE

\* ------------------------------------------------ camera and initialisation
FreeCams == {c \in CamSlots : cams[c].pc = "free"}

\* stream.getTracks().forEach(track => track.stop()) behind if (stream)
StopTracks(captured, live) == IF captured # 0 THEN live \ {captured} ELSE live

\* getUserMedia resolves for the startCamera call c
GumResolve(c) ==
  /\ rejected' = FALSE
  /\ lost' = FALSE
  /\ cams[c].pc = "gum"
  /\ granted < MaxStreams
  /\ granted' = granted + 1
  /\ liveTracks' = liveTracks \cup {granted + 1}
  /\ IF MainScreen
     THEN \* videoRef.current: attach the stream and wait for loadedmetadata
          /\ videoSrc' = granted + 1
          /\ metaFired' = FALSE
          /\ metaOwner' = c
          /\ readyState4' = FALSE
          /\ cams' = [cams EXCEPT ![c] = [@ EXCEPT !.pc = "meta", !.s = granted + 1]]
          /\ UNCHANGED <<stream, initPc>>
     ELSE \* no video element: setStream(newStream); return true
          /\ stream' = SetState(stream, granted + 1)
          /\ initPc' = IF cams[c].init THEN "model" ELSE initPc
          /\ cams' = [cams EXCEPT ![c] = FreeCam]
          /\ UNCHANGED <<videoSrc, metaFired, metaOwner, readyState4>>
  /\ UNCHANGED <<rev, mounted, now, isLoading, error, model, isScanning, arMode,
                 detectedCar, carPosition, placementMode, placedCars,
                 showFloorGrid, floorLevel, loops, canvasDrawn>>

\* getUserMedia rejects: startCamera throws; init sets the error, switchCamera logs
GumReject(c) ==
  /\ rejected' = FALSE
  /\ lost' = FALSE
  /\ cams[c].pc = "gum"
  /\ cams' = [cams EXCEPT ![c] = FreeCam]
  /\ IF cams[c].init
     THEN /\ error' = SetState(error, CameraError)
          /\ isLoading' = SetState(isLoading, FALSE)
          /\ initPc' = "failed"
     ELSE UNCHANGED <<error, isLoading, initPc>>
  /\ UNCHANGED <<rev, mounted, now, model, isScanning, arMode, detectedCar, carPosition,
                 stream, placementMode, placedCars, showFloorGrid,
                 floorLevel, loops, canvasDrawn, granted, liveTracks, videoSrc,
                 metaFired, metaOwner, readyState4>>

\* the video dispatches loadedmetadata: the handler plays and resolves the
\* promise of the call that installed it, which then does setStream(newStream)
LoadedMetadata ==
  /\ rejected' = FALSE
  /\ lost' = FALSE
  /\ videoSrc # 0
  /\ ~metaFired
  /\ metaFired' = TRUE
  /\ IF metaOwner # 0 /\ cams[metaOwner].pc = "meta"
     THEN /\ stream' = SetState(stream, cams[metaOwner].s)
          /\ initPc' = IF cams[metaOwner].init THEN "model" ELSE initPc
          /\ cams' = [cams EXCEPT ![metaOwner] = FreeCam]
     ELSE UNCHANGED <<stream, initPc, cams>>
  /\ UNCHANGED <<rev, mounted, now, isLoading, error, model, isScanning, arMode,
                 detectedCar, carPosition, placementMode, placedCars,
                 showFloorGrid, floorLevel, loops, canvasDrawn, granted, liveTracks,
                 videoSrc, metaOwner, readyState4>>

\* the video of a live stream reaches readyState 4
VideoCanPlay ==
  /\ rejected' = FALSE
  /\ lost' = FALSE
  /\ videoSrc # 0
  /\ metaFired
  /\ videoSrc \in liveTracks
  /\ ~readyState4
  /\ readyState4' = TRUE
  /\ UNCHANGED <<rev, mounted, now, reactState, loops, canvasDrawn, initPc, cams,
                 granted, liveTracks, videoSrc, metaFired, metaOwner>>

\* loadModel resolves: setModel(loadedModel); setIsLoading(false)
LoadModelResolve ==
  /\ rejected' = FALSE
  /\ lost' = FALSE
  /\ initPc = "model"
  /\ initPc' = "done"
  /\ model' = SetState(model, Loaded)
  /\ isLoading' = SetState(isLoading, FALSE)
  /\ CommitPossible(isScanning, arMode, model')
  /\ loops' = LoopsAfterCommit(isScanning, arMode, model', mounted)
  /\ canvasDrawn' = CanvasAfterIssue(loops, loops')
  /\ UNCHANGED <<rev, mounted, now, error, isScanning, arMode, detectedCar, carPosition,
                 stream, placementMode, placedCars, showFloorGrid,
                 floorLevel, cams, granted, liveTracks, videoSrc, metaFired,
                 metaOwner, readyState4>>

\* an init whose catch block ends the loading without setting the error
MutLoadModelRejectSilent ==
  /\ rejected' = FALSE
  /\ lost' = FALSE
  /\ initPc = "model"
  /\ initPc' = "failed"
  /\ isLoading' = SetState(isLoading, FALSE)
  /\ UNCHANGED <<rev, mounted, now, error, model, isScanning, arMode, detectedCar,
                 carPosition, stream, placementMode, placedCars, showFloorGrid,
                 floorLevel, loops, canvasDrawn, cams, granted, liveTracks, videoSrc,
                 metaFired, metaOwner, readyState4>>

\* loadModel rejects: setError(err.message); setIsLoading(false)
LoadModelReject ==
  /\ rejected' = FALSE
  /\ lost' = FALSE
  /\ initPc = "model"
  /\ initPc' = "failed"
  /\ error' = SetState(error, ModelError)
  /\ isLoading' = SetState(isLoading, FALSE)
  /\ UNCHANGED <<rev, mounted, now, model, isScanning, arMode, detectedCar, carPosition,
                 stream, placementMode, placedCars, showFloorGrid,
                 floorLevel, loops, canvasDrawn, cams, granted, liveTracks, videoSrc,
                 metaFired, metaOwner, readyState4>>

\* the camera button: startCamera(newFacing) up to getUserMedia (the facing
\* value only selects the device and a label, and is not modelled)
SwitchCamera ==
  /\ rejected' = FALSE
  /\ lost' = FALSE
  /\ MainScreen
  /\ FreeCams # {}
  /\ liveTracks' = StopTracks(stream, liveTracks)
  /\ cams' = [cams EXCEPT ![MinOf(FreeCams)] = [pc |-> "gum", init |-> FALSE, s |-> 0]]
  /\ UNCHANGED <<rev, mounted, now, isLoading, error, model, isScanning, arMode,
                 detectedCar, carPosition, stream, placementMode, placedCars,
                 showFloorGrid, floorLevel, loops, canvasDrawn, initPc, granted,
                 videoSrc, metaFired, metaOwner, readyState4>>

\* the stream value the initialisation effect captured (first render)
InitialStream == 0

\* the component unmounts: every effect cleanup runs, the refs become null
Unmount ==
  /\ rejected' = FALSE
  /\ lost' = FALSE
  /\ mounted
  /\ CanTearDown(loops)
  /\ mounted' = FALSE
  /\ loops' = EffectCleanup(loops)
  /\ liveTracks' = StopTracks(InitialStream, liveTracks)
  /\ UNCHANGED <<rev, now, reactState, canvasDrawn, initPc, cams, granted, videoSrc,
                 metaFired, metaOwner, readyState4>>

\* ------------------------------------------------------ mode handlers
\* handleScan whose Scanning-to-Locked branch forgets setIsScanning(false)
MutHandleScanKeepScanning(r, isS, arM, dc, cp, pm, sfg) ==
  IF ~isS
  THEN [isScanning |-> TRUE, arMode |-> FALSE,
        placementMode |-> IF r = "placement" THEN FALSE ELSE pm,
        showFloorGrid |-> IF r = "placement" THEN FALSE ELSE sfg,
        detectedCar |-> Null,
        carPosition |-> IF r = "basic" THEN cp ELSE Null]
  ELSE IF dc # Null
  THEN [isScanning |-> TRUE, arMode |-> TRUE, placementMode |-> pm,
        showFloorGrid |-> IF r = "placement" THEN TRUE ELSE sfg,
        detectedCar |-> dc, carPosition |-> cp]
  ELSE [isScanning |-> FALSE, arMode |-> arM, placementMode |-> pm,
        showFloorGrid |-> sfg, detectedCar |-> dc, carPosition |-> cp]

\* handleScan that locks without testing detectedCar
MutHandleScanLockAlways(r, isS, arM, dc, cp, pm, sfg) ==
  IF ~isS
  THEN [isScanning |-> TRUE, arMode |-> FALSE,
        placementMode |-> IF r = "placement" THEN FALSE ELSE pm,
        showFloorGrid |-> IF r = "placement" THEN FALSE ELSE sfg,
        detectedCar |-> Null,
        carPosition |-> IF r = "basic" THEN cp ELSE Null]
  ELSE [isScanning |-> FALSE, arMode |-> TRUE, placementMode |-> pm,
        showFloorGrid |-> IF r = "placement" THEN TRUE ELSE sfg,
        detectedCar |-> dc, carPosition |-> cp]

\* the state setters of handleScan, from the values its closure sees
HandleScanState(r, isS, arM, dc, cp, pm, sfg) ==
  IF ~isS
  THEN [isScanning |-> TRUE, arMode |-> FALSE,
        placementMode |-> IF r = "placement" THEN FALSE ELSE pm,
        showFloorGrid |-> IF r = "placement" THEN FALSE ELSE sfg,
        detectedCar |-> Null,
        carPosition |-> IF r = "basic" THEN cp ELSE Null]
  ELSE IF dc # Null
  THEN [isScanning |-> FALSE, arMode |-> TRUE, placementMode |-> pm,
        showFloorGrid |-> IF r = "placement" THEN TRUE ELSE sfg,
        detectedCar |-> dc, carPosition |-> cp]
  ELSE [isScanning |-> FALSE, arMode |-> arM, placementMode |-> pm,
        showFloorGrid |-> sfg, detectedCar |-> dc, carPosition |-> cp]

\* the scan button (rendered when arMode is false)
HandleScan ==
  /\ rejected' = FALSE
  /\ lost' = FALSE
  /\ MainScreen
  /\ ~arMode
  /\ LET n == HandleScanState(rev, isScanning, arMode, detectedCar, carPosition,
                              placementMode, showFloorGrid)
     IN /\ isScanning' = n.isScanning
        /\ arMode' = n.arMode
        /\ placementMode' = n.placementMode
        /\ showFloorGrid' = n.showFloorGrid
        /\ detectedCar' = n.detectedCar
        /\ carPosition' = n.carPosition
        /\ CommitPossible(n.isScanning, n.arMode, model)
        /\ loops' = LoopsAfterCommit(n.isScanning, n.arMode, model, TRUE)
  /\ canvasDrawn' = CanvasAfterIssue(loops, loops')
  /\ UNCHANGED <<rev, mounted, now, isLoading, error, model, stream,
                 placedCars, floorLevel, cameraVars>>

\* exitAR that forgets setCarPosition(null)
MutExitARKeepPosition(r, pm, sfg) ==
  [arMode |-> FALSE,
   placementMode |-> IF r = "placement" THEN FALSE ELSE pm,
   showFloorGrid |-> IF r = "placement" THEN FALSE ELSE sfg,
   detectedCar |-> Null, carPosition |-> carPosition]

\* the state setters of exitAR
ExitARState(r, pm, sfg) ==
  [arMode |-> FALSE,
   placementMode |-> IF r = "placement" THEN FALSE ELSE pm,
   showFloorGrid |-> IF r = "placement" THEN FALSE ELSE sfg,
   detectedCar |-> Null, carPosition |-> Null]

\* an exit that also empties the list of placed cars
MutExitARClearsPlaced ==
  /\ rejected' = FALSE
  /\ lost' = FALSE
  /\ MainScreen
  /\ arMode
  /\ LET n == ExitARState(rev, placementMode, showFloorGrid)
     IN /\ arMode' = n.arMode
        /\ placementMode' = n.placementMode
        /\ showFloorGrid' = n.showFloorGrid
        /\ detectedCar' = n.detectedCar
        /\ carPosition' = n.carPosition
        /\ CommitPossible(isScanning, n.arMode, model)
        /\ loops' = LoopsAfterCommit(isScanning, n.arMode, model, TRUE)
  /\ canvasDrawn' = CanvasAfterIssue(loops, loops')
  /\ placedCars' = << >>
  /\ UNCHANGED <<rev, mounted, now, isLoading, error, model, isScanning, stream,
                 floorLevel, cameraVars>>

\* the exit button (rendered when arMode is true)
ExitAR ==
  /\ rejected' = FALSE
  /\ lost' = FALSE
  /\ MainScreen
  /\ arMode
  /\ LET n == ExitARState(rev, placementMode, showFloorGrid)
     IN /\ arMode' = n.arMode
        /\ placementMode' = n.placementMode
        /\ showFloorGrid' = n.showFloorGrid
        /\ detectedCar' = n.detectedCar
        /\ carPosition' = n.carPosition
        /\ CommitPossible(isScanning, n.arMode, model)
        /\ loops' = LoopsAfterCommit(isScanning, n.arMode, model, TRUE)
  /\ canvasDrawn' = CanvasAfterIssue(loops, loops')
  /\ UNCHANGED <<rev, mounted, now, isLoading, error, model, isScanning, stream, placedCars, floorLevel, cameraVars>>

\* ------------------------------------------------------ detection cycle
\* a filter that tests the score and not the class
MutVehiclesAnyClass(r, preds) ==
  SelectSeq(preds, LAMBDA p : p.score > Threshold(r))

\* predictions.filter(...): vehicle class and score above the threshold
Vehicles(r, preds) ==
  SelectSeq(preds, LAMBDA p : p.class \in VehicleClasses /\ p.score > Threshold(r))

\* a transform that applies the horizontal scale to both axes
MutScaleBoxUniform(b, fW, fH, dW, dH) ==
  [x |-> Frac(b[1] * dW, fW), y |-> Frac(b[2] * dW, fW),
   width |-> Frac(b[3] * dW, fW), height |-> Frac(b[4] * dW, fW)]

\* newPosition: the box scaled by window size over canvas size, per axis
ScaleBox(b, fW, fH, dW, dH) ==
  [x |-> Frac(b[1] * dW, fW), y |-> Frac(b[2] * dH, fH),
   width |-> Frac(b[3] * dW, fW), height |-> Frac(b[4] * dH, fH)]

\* Math.min(0.9, Math.max(0.5, (y + height) / canvas.height))
EstimateFloor(b, fH) ==
  FracMin(Frac(9, 10), FracMax(Frac(1, 2), Frac(b[2] + b[4], fH)))

\* a cycle that never takes the Scanning branches
MutScanningGuardNever(r, l) == FALSE

\* the condition under which the cycle draws the box or clears the detection,
\* on the isScanning and arMode values the instance captured
ScanningGuard(r, l) == IF r = "basic" THEN ~l.arMode ELSE l.isScanning /\ ~l.arMode

\* what the continuation of model.detect does with the predictions
DetectOutcome(r, l, preds, dc, cp, fl) ==
  LET vehicles == Vehicles(r, preds) IN
  IF Len(vehicles) > 0
  THEN LET car == vehicles[1] IN
       [detectedCar |-> [bbox |-> car.bbox, class |-> car.class, score |-> car.score],
        carPosition |-> ScaleBox(car.bbox, VideoWidth, VideoHeight, InnerWidth, InnerHeight),
        floorLevel |-> IF r = "placement" THEN EstimateFloor(car.bbox, VideoHeight) ELSE fl,
        canvasDrawn |-> ScanningGuard(r, l)]
  ELSE [detectedCar |-> IF ScanningGuard(r, l) THEN Null ELSE dc,
        carPosition |-> IF ScanningGuard(r, l) THEN Null ELSE cp,
        floorLevel |-> fl,
        canvasDrawn |-> FALSE]

\* the pending requestAnimationFrame callback of instance i runs detect()
FrameCallback(i) ==
  /\ rejected' = FALSE
  /\ lost' = FALSE
  /\ loops[i].pc = "frame"
  /\ loops' = [loops EXCEPT ![i] = Normalise(Detect(loops[i], MainScreen, readyState4))]
  /\ canvasDrawn' = CanvasAfterIssue(loops, loops')
  /\ UNCHANGED <<rev, mounted, now, reactState, cameraVars>>

\* the model.detect call of instance i resolves with preds
DetectResolve(i, preds) ==
  /\ rejected' = FALSE
  /\ lost' = (Len(Vehicles(rev, preds)) = 0)
  /\ loops[i].pc = "await"
  /\ LET o == DetectOutcome(rev, loops[i], preds, detectedCar, carPosition, floorLevel)
     IN /\ detectedCar' = SetState(detectedCar, o.detectedCar)
        /\ carPosition' = SetState(carPosition, o.carPosition)
        /\ floorLevel' = SetState(floorLevel, o.floorLevel)
        /\ canvasDrawn' = o.canvasDrawn
  /\ loops' = [loops EXCEPT ![i] = Normalise(Reschedule(loops[i]))]
  /\ UNCHANGED <<rev, mounted, now, isLoading, error, model, isScanning, arMode,
                 stream, placementMode, placedCars, showFloorGrid,
                 cameraVars>>

\* a rejection that escapes detect(): the reschedule after the try is skipped
MutDetectRejectStops(i) ==
  /\ rejected' = TRUE
  /\ lost' = FALSE
  /\ loops[i].pc = "await"
  /\ loops' = [loops EXCEPT ![i] = FreeLoop]
  /\ UNCHANGED <<rev, mounted, now, reactState, canvasDrawn, cameraVars>>

\* a catch block that treats the rejection as a lost detection and reports it
MutDetectRejectSurfaces(i) ==
  /\ rejected' = TRUE
  /\ lost' = FALSE
  /\ loops[i].pc = "await"
  /\ loops' = [loops EXCEPT ![i] = Normalise(Reschedule(loops[i]))]
  /\ detectedCar' = Null
  /\ carPosition' = Null
  /\ error' = [message |-> "Detection error"]
  /\ UNCHANGED <<rev, mounted, now, isLoading, model, isScanning, arMode, stream, placementMode, placedCars, showFloorGrid, floorLevel,
                 canvasDrawn, cameraVars>>

\* the model.detect call of instance i rejects: caught and logged
DetectReject(i) ==
  /\ rejected' = TRUE
  /\ lost' = FALSE
  /\ loops[i].pc = "await"
  /\ loops' = [loops EXCEPT ![i] = Normalise(Reschedule(loops[i]))]
  /\ UNCHANGED <<rev, mounted, now, reactState, canvasDrawn, cameraVars>>

\* ----------------------------------------------------------- placement
\* the Place Mode button (rendered when arMode is true)
TogglePlacementMode ==
  /\ rejected' = FALSE
  /\ lost' = FALSE
  /\ MainScreen
  /\ rev = "placement"
  /\ arMode
  /\ placementMode' = ~placementMode
  /\ showFloorGrid' = TRUE
  /\ UNCHANGED <<rev, mounted, now, isLoading, error, model, isScanning, arMode,
                 detectedCar, carPosition, stream, placedCars,
                 floorLevel, loops, canvasDrawn, cameraVars>>

\* clientY > window.innerHeight * floorLevel * 0.8
BelowFloor(y, fl) == y * fl.d * 10 > InnerHeight * fl.n * 8

\* the list after handleScreenTap at (x, y), r the palette index drawn
PlacedAfterTap(pm, cars, fl, x, y, r, t) ==
  IF ~pm THEN cars
  ELSE IF BelowFloor(y, fl)
  THEN Append(cars, [id |-> t, x |-> x, y |-> y, rotation |-> 0, scale |-> 1,
                     color |-> Palette[r + 1]])
  ELSE cars

\* a click or a touchend on the screen outside the buttons, dt after the
\* previous reading of the clock (the clock is read by nothing else).  The
\* touchend of a one-finger tap has an empty touches list: in placement mode
\* e.touches[0].clientX throws before any setter is called
HandleScreenTap(y, r, dt, ev) ==
  /\ rejected' = FALSE
  /\ lost' = FALSE
  /\ MainScreen
  /\ rev = "placement"
  /\ Len(placedCars) < MaxPlaced
  /\ now + dt <= MaxClock
  /\ now' = now + dt
  /\ placedCars' = IF ev = "touchend" THEN placedCars
                   ELSE PlacedAfterTap(placementMode, placedCars, floorLevel, TapX, y, r, now')
  /\ UNCHANGED <<rev, mounted, isLoading, error, model, isScanning, arMode,
                 detectedCar, carPosition, stream, placementMode,
                 showFloorGrid, floorLevel, loops, canvasDrawn, cameraVars>>

\* the Clear All button (rendered when arMode and a car is placed)
ClearPlacedCars ==
  /\ rejected' = FALSE
  /\ lost' = FALSE
  /\ MainScreen
  /\ rev = "placement"
  /\ arMode
  /\ Len(placedCars) > 0
  /\ placedCars' = << >>
  /\ UNCHANGED <<rev, mounted, now, isLoading, error, model, isScanning, arMode,
                 detectedCar, carPosition, stream, placementMode,
                 showFloorGrid, floorLevel, loops, canvasDrawn, cameraVars>>

\* the remove button of a placed car
RemoveCar(id) ==
  /\ rejected' = FALSE
  /\ lost' = FALSE
  /\ MainScreen
  /\ rev = "placement"
  /\ \E k \in 1..Len(placedCars) : placedCars[k].id = id
  /\ placedCars' = SelectSeq(placedCars, LAMBDA c : c.id # id)
  /\ UNCHANGED <<rev, mounted, now, isLoading, error, model, isScanning, arMode,
                 detectedCar, carPosition, stream, placementMode,
                 showFloorGrid, floorLevel, loops, canvasDrawn, cameraVars>>

\* ------------------------------------------------------- tracked overlay
\* const scale = 2.5 of ThreeDCar
OverlayScale == Frac(5, 2)

\* an enlargement that keeps the top-left corner of the position
MutDisplaySizeTopLeft(position) ==
  [width |-> FracMul(position.width, OverlayScale),
   height |-> FracMul(position.height, OverlayScale),
   x |-> position.x,
   y |-> position.y]

\* displaySize of ThreeDCar: the style rectangle of the overlay
DisplaySize(position) ==
  [width |-> FracMul(position.width, OverlayScale),
   height |-> FracMul(position.height, OverlayScale),
   x |-> FracSub(position.x,
                 FracMul(FracMul(position.width, FracSub(OverlayScale, Frac(1, 1))),
                         Frac(1, 2))),
   y |-> FracSub(position.y,
                 FracMul(FracMul(position.height, FracSub(OverlayScale, Frac(1, 1))),
                         Frac(1, 2)))]

\* left, top, width and height of the tracked overlay; the basic revision
\* draws it at the position itself
OverlayRect(r, position) ==
  IF r = "basic" THEN position ELSE DisplaySize(position)

\* the render condition of the tracked overlay
OverlayShown ==
  /\ MainScreen
  /\ arMode
  /\ carPosition # Null
  /\ rev = "placement" => ~placementMode

\* ------------------------------------------------------- specification
Next ==
  \/ \E c \in CamSlots : GumResolve(c)
  \/ \E c \in CamSlots : GumReject(c)
  \/ LoadedMetadata
  \/ VideoCanPlay
  \/ LoadModelResolve
  \/ LoadModelReject
  \/ SwitchCamera
  \/ Unmount
  \/ HandleScan
  \/ ExitAR
  \/ \E i \in LoopSlots : FrameCallback(i)
  \/ \E i \in LoopSlots, preds \in PredictionLists : DetectResolve(i, preds)
  \/ \E i \in LoopSlots : DetectReject(i)
  \/ TogglePlacementMode
  \/ \E y \in TapYs, r \in RandomIndexes, dt \in 0..1, ev \in EventKinds :
       HandleScreenTap(y, r, dt, ev)
  \/ ClearPlacedCars
  \/ \E id \in 0..MaxClock : RemoveCar(id)

Spec == Init /\ [][Next]_vars

\* detector completions and frame callbacks always happen eventually: the
\* browser runs every requested frame callback, the video of a live stream
\* becomes ready, and the detector is taken to complete every call
Complete(i) == (\E preds \in PredictionLists : DetectResolve(i, preds)) \/ DetectReject(i)

Fairness ==
  /\ \A i \in LoopSlots : WF_vars(FrameCallback(i))
  /\ \A i \in LoopSlots : WF_vars(Complete(i))
  /\ WF_vars(VideoCanPlay)

FairSpec == Spec /\ Fairness

\* ================================================================ claims
Pending == PendingIn(loops)

\* C1: in every reachable state isScanning and arMode are never both true
\* (Idle = both false, Scanning = isScanning only, Locked = arMode only).
C1_ModeIsThreeState == ~(isScanning /\ arMode)

\* Locked was reached by a toggle that tore down a Scanning instance whose
\* detector call is still pending
C1_Witness ==
  /\ arMode /\ ~isScanning
  /\ \E k \in StaleSlots : loops[k].pc = "await" /\ loops[k].isScanning

\* C2: the scan button pressed in Scanning moves to Locked iff detectedCar is
\* non-null, leaving detectedCar and carPosition unchanged, and to Idle
\* otherwise; Locked is entered only from Scanning with a non-null detectedCar.
C2_ToggleLocksIffDetection ==
  [][ /\ (isScanning /\ HandleScan) =>
           IF detectedCar # Null
           THEN Mode' = "Locked" /\ UNCHANGED <<detectedCar, carPosition>>
           ELSE Mode' = "Idle"
      /\ (Mode # "Locked" /\ Mode' = "Locked") =>
           (Mode = "Scanning" /\ detectedCar # Null /\ HandleScan) ]_vars

\* the toggle has locked on a detection and the loop restarted in AR mode
C2_Witness ==
  /\ Mode = "Locked"
  /\ detectedCar # Null
  /\ carPosition # Null
  /\ Live(loops[0]) /\ loops[0].arMode

\* C3 (as claimed): in every revision the start action taken in Idle moves to
\* Scanning and leaves detectedCar and carPosition null.
C3_StartClearsBoth ==
  [][ (~isScanning /\ HandleScan) =>
        (Mode' = "Scanning" /\ detectedCar' = Null /\ carPosition' = Null) ]_vars

\* C4: exitAR taken in Locked moves to Idle, clears detectedCar and carPosition
\* and leaves placementMode off, whatever the detection loop is doing.
C4_ExitClears ==
  [][ ExitAR => (Mode' = "Idle" /\ detectedCar' = Null /\ carPosition' = Null
                 /\ ~placementMode') ]_vars

\* exit was taken while the Locked loop had a detector call in flight
C4_Witness ==
  /\ Mode = "Idle"
  /\ detectedCar = Null
  /\ \E k \in StaleSlots : loops[k].arMode /\ loops[k].pc = "await"

\* C5 (as claimed): at most one detector call is pending at any time, across
\* the mode changes that tear one loop instance down and start another.
C5_OneCallPending == Cardinality(Pending) <= 1

\* C6 (as claimed): a detector call in flight when its instance is torn down
\* changes neither detectedCar, carPosition, floorLevel nor the canvas when it
\* completes.
C6_StaleResultIgnored ==
  [][ \A k \in StaleSlots :
        (loops[k].pc = "await" /\ loops'[k].pc # "await")
          => UNCHANGED <<detectedCar, carPosition, floorLevel, canvasDrawn>> ]_vars

\* C7: every detector call is issued in a state where the model is loaded and
\* Mode is Scanning or Locked.
C7_InertInIdle ==
  [][ Issued(loops, loops') => (model' # Null /\ Mode' \in {"Scanning", "Locked"}) ]_vars

\* a detector call of the current instance is pending in Scanning
C7_Witness ==
  /\ Mode = "Scanning"
  /\ Live(loops[0]) /\ loops[0].pc = "await" /\ loops[0].isScanning

\* C8: an instance that was torn down never issues a detector call and never
\* schedules a frame callback: it only keeps the call that was pending at the
\* teardown until that call completes; running its cleanup again changes nothing.
C8_TornDownStaysDown ==
  /\ [][ \A k \in StaleSlots :
           /\ loops[k].pc # "free" => loops'[k].pc \in {loops[k].pc, "free"}
           /\ (loops[k].pc = "free" /\ loops'[k].pc # "free")
                => (loops'[k].pc = "await" /\ loops[0].pc = "await") ]_vars
  /\ [](\A i \in LoopSlots : Cleanup(Cleanup(loops[i])) = Cleanup(loops[i]))

\* an instance torn down while its detector call is in flight
C8_Witness ==
  \E k \in StaleSlots : loops[k].torn /\ ~loops[k].running /\ loops[k].pc = "await"

\* C9: a cycle of the current instance whose detector call resolves or rejects
\* schedules the next frame callback; with fair scheduling, if from some point
\* on Mode stays out of Idle with the component mounted and the video ready,
\* detector calls are issued again and again.
C9_LoopContinues ==
  /\ [][ Complete(0) => (loops'[0].pc = "frame" /\ Live(loops'[0])) ]_vars
  /\ (<>[](Mode # "Idle" /\ mounted /\ readyState4))
        => []<><<Issued(loops, loops')>>_vars

\* a rejected call of the current instance has just rescheduled the cycle
C9_Witness ==
  /\ rejected
  /\ Live(loops[0]) /\ loops[0].pc = "frame"

\* C10: a rejected detector call changes neither Mode, detectedCar,
\* carPosition nor the placed cars, and error stays null.
C10_RejectAbsorbed ==
  [][ (\E i \in LoopSlots : DetectReject(i)) =>
        (UNCHANGED <<isScanning, arMode, detectedCar, carPosition, placedCars>>
         /\ error' = Null) ]_vars

\* a call has just been rejected with a detection held and a car placed
C10_Witness ==
  /\ rejected
  /\ detectedCar # Null
  /\ carPosition # Null
  /\ placedCars # << >>

\* C11: a cycle that starts while the video's readyState is not 4 issues no
\* detector call, changes neither detectedCar, carPosition, floorLevel nor the
\* canvas, and leaves a frame callback pending for the next cycle.
C11_NotReadyReschedules ==
  /\ [][ ~readyState4 => ~Issued(loops, loops') ]_vars
  /\ [][ \A i \in LoopSlots :
           (~readyState4 /\ MainScreen /\ FrameCallback(i))
             => /\ loops'[i].pc = "frame"
                /\ UNCHANGED <<detectedCar, carPosition, floorLevel, canvasDrawn>> ]_vars
  /\ [][ (~readyState4 /\ ~Live(loops[0]) /\ Live(loops'[0]))
           => loops'[0].pc = "frame" ]_vars

\* the current instance found the video not ready and waits for the next frame
C11_Witness ==
  /\ Mode = "Scanning"
  /\ ~readyState4
  /\ Live(loops[0]) /\ loops[0].pc = "frame" /\ loops[0].animSet

\* detector outputs for the laws of the filter: every list of up to three
\* predictions over three labels and scores around both thresholds
LawPredictions ==
  {Prediction(c, sc, BoxA) : c \in {"person", "car", "truck"}, sc \in {35, 36, 50, 51}}
LawLists ==
  {<< >>} \cup {<<p>> : p \in LawPredictions}
          \cup {<<p, q>> : p \in LawPredictions, q \in LawPredictions}
          \cup {<<p, q, t>> : p \in LawPredictions, q \in LawPredictions,
                              t \in {Prediction("truck", 60, BoxB), Prediction("person", 90, BoxB)}}

\* the positions of preds holding an allowed label and a score above the threshold
Qualifying(r, preds) ==
  {k \in 1..Len(preds) :
     /\ preds[k].class \in {"car", "truck", "bus", "motorcycle"}
     /\ preds[k].score > (IF r = "basic" THEN 50 ELSE 35)}

\* the detection a cycle of a Scanning instance publishes for preds
SelectedOf(r, preds) ==
  DetectOutcome(r, NewLoop(TRUE, FALSE), preds, Null, Null, Frac(7, 10)).detectedCar

FirstMatchLaw(r, preds) ==
  LET q == Qualifying(r, preds) IN
  IF q = {} THEN SelectedOf(r, preds) = Null
  ELSE LET k == MinOf(q) IN
       /\ SelectedOf(r, preds) = [bbox |-> preds[k].bbox, class |-> preds[k].class,
                                  score |-> preds[k].score]
       /\ SelectedOf(r, preds).class \in {"car", "truck", "bus", "motorcycle"}

\* C12: for every detector result list the selected detection is the earliest
\* element, in the detector's order, whose label is car, truck, bus or
\* motorcycle and whose score is above the threshold, whatever the scores of
\* later elements; nothing is selected iff no element qualifies; a cycle that
\* completes publishes exactly that element as detectedCar.
C12_FirstMatchSelected ==
  /\ \A r \in Revisions, preds \in LawLists \cup PredictionLists : FirstMatchLaw(r, preds)
  /\ [][ \A i \in LoopSlots, preds \in PredictionLists :
           (mounted /\ DetectResolve(i, preds) /\ Qualifying(rev, preds) # {})
             => LET p == preds[MinOf(Qualifying(rev, preds))] IN
                /\ detectedCar' # Null
                /\ detectedCar'.class = p.class
                /\ detectedCar'.score = p.score
                /\ detectedCar'.bbox = p.bbox ]_vars

\* the car at 0.4 was selected although a truck at 0.6 follows it in the list
C12_Witness ==
  /\ rev # "basic"
  /\ detectedCar # Null
  /\ detectedCar.class = "car" /\ detectedCar.score = 40
  /\ Mode = "Scanning"

\* C13 (as claimed): an allowed label whose score equals the threshold (0.35, or
\* 0.5 in the basic revision) qualifies: a cycle that completes with the list
\* AtThreshold publishes the element whose score is the revision's threshold.
C13_ThresholdInclusive ==
  [][ \A i \in LoopSlots :
        (mounted /\ ScanningGuard(rev, loops[i]) /\ DetectResolve(i, AtThreshold))
          => (detectedCar' # Null /\ detectedCar'.score = Threshold(rev)) ]_vars

\* boxes, frame sizes and display sizes for the law of the transform
LawBoxes == {BoxA, BoxB, <<0, 0, 1, 1>>, <<7, 3, 5, 11>>}
LawSizes == {<<640, 480>>, <<1280, 960>>, <<800, 960>>, <<3, 7>>}

\* p = v * d / f, in cross-multiplied form
IsScaled(p, v, d, f) == p.d > 0 /\ p.n * f = v * d * p.d

TransformLaw(b, f, d) ==
  LET p == ScaleBox(b, f[1], f[2], d[1], d[2]) IN
  /\ IsScaled(p.x, b[1], d[1], f[1])
  /\ IsScaled(p.y, b[2], d[2], f[2])
  /\ IsScaled(p.width, b[3], d[1], f[1])
  /\ IsScaled(p.height, b[4], d[2], f[2])

\* C14: the published carPosition of a box (x, y, w, h) for frame size (fW, fH)
\* and display size (dW, dH) is (x*dW/fW, y*dH/fH, w*dW/fW, h*dH/fH), each axis
\* with its own factor; (100,50,200,100) in 640x480 shown at 1280x960 gives
\* (200,100,400,200); every cycle that selects a detection publishes the
\* transform of that detection's box.
C14_TransformPerAxis ==
  /\ \A b \in LawBoxes, f \in LawSizes, d \in LawSizes : TransformLaw(b, f, d)
  /\ ScaleBox(<<100, 50, 200, 100>>, 640, 480, 1280, 960)
       = [x |-> [n |-> 200, d |-> 1], y |-> [n |-> 100, d |-> 1],
          width |-> [n |-> 400, d |-> 1], height |-> [n |-> 200, d |-> 1]]
  /\ [][ \A i \in LoopSlots, preds \in PredictionLists :
           (mounted /\ DetectResolve(i, preds) /\ Qualifying(rev, preds) # {})
             => LET b == preds[MinOf(Qualifying(rev, preds))].bbox IN
                /\ carPosition' # Null
                /\ IsScaled(carPosition'.x, b[1], InnerWidth, VideoWidth)
                /\ IsScaled(carPosition'.y, b[2], InnerHeight, VideoHeight)
                /\ IsScaled(carPosition'.width, b[3], InnerWidth, VideoWidth)
                /\ IsScaled(carPosition'.height, b[4], InnerHeight, VideoHeight) ]_vars

\* a cycle published the position of the box (100,50,200,100)
C14_Witness ==
  /\ detectedCar # Null
  /\ detectedCar.bbox = <<100, 50, 200, 100>>
  /\ carPosition # Null
  /\ IsScaled(carPosition.x, 100, InnerWidth, VideoWidth)
  /\ IsScaled(carPosition.height, 100, InnerHeight, VideoHeight)

\* positions for the law of the enlargement
Rect(x, y, w, h) == [x |-> Frac(x, 1), y |-> Frac(y, 1), width |-> Frac(w, 1),
                     height |-> Frac(h, 1)]
LawPositions == {Rect(100, 100, 50, 50), Rect(0, 0, 10, 4), Rect(200, 100, 400, 200),
                 [x |-> Frac(1, 3), y |-> Frac(7, 2), width |-> Frac(5, 3),
                  height |-> Frac(1, 7)]}

CentreX(q) == FracAdd(q.x, FracMul(q.width, Frac(1, 2)))
CentreY(q) == FracAdd(q.y, FracMul(q.height, Frac(1, 2)))

\* d is pos enlarged 2.5 times about its centre
EnlargedAboutCentre(d, pos) ==
  /\ d.width.n * 2 * pos.width.d = 5 * pos.width.n * d.width.d
  /\ d.height.n * 2 * pos.height.d = 5 * pos.height.n * d.height.d
  /\ CentreX(d) = CentreX(pos)
  /\ CentreY(d) = CentreY(pos)
  /\ d.x = FracSub(pos.x, Frac(3 * pos.width.n, 4 * pos.width.d))
  /\ d.y = FracSub(pos.y, Frac(3 * pos.height.n, 4 * pos.height.d))

C16_LossInScanningClears ==
  [][ \A i \in LoopSlots, preds \in PredictionLists :
        (mounted /\ Mode = "Scanning" /\ Live(loops[i]) /\ DetectResolve(i, preds)
           /\ Qualifying(rev, preds) = {})
          => (detectedCar' = Null /\ carPosition' = Null) ]_vars

\* the current Scanning instance has just completed a cycle with no selection
\* (every torn-down instance still waits for its call)
C16_Witness ==
  /\ lost
  /\ Mode = "Scanning"
  /\ detectedCar = Null /\ carPosition = Null
  /\ Live(loops[0]) /\ loops[0].pc = "frame"
  /\ \A k \in StaleSlots : loops[k].pc = "await"

\* C17 (as claimed): in Locked with a last-known carPosition, the completion of
\* a detection cycle with no qualifying detection leaves detectedCar and
\* carPosition as they were.
C17_LossInLockedRetains ==
  [][ \A i \in LoopSlots, preds \in PredictionLists :
        (mounted /\ Mode = "Locked" /\ carPosition # Null /\ DetectResolve(i, preds)
           /\ Qualifying(rev, preds) = {})
          => UNCHANGED <<detectedCar, carPosition>> ]_vars

\* C18 (as claimed): a cycle draws the box, brackets and label on the canvas
\* only when Mode is Scanning, for every interleaving of completions with
\* user actions.
C18_AnnotationOnlyInScanning ==
  [][ \A i \in LoopSlots, preds \in PredictionLists :
        (DetectResolve(i, preds) /\ canvasDrawn') => Mode = "Scanning" ]_vars

\* C19 (as claimed): whenever getUserMedia fails, at initialisation or during a
\* camera switch, error becomes non-null.
C19_CameraFailureSurfaced ==
  [][ \A c \in CamSlots : (mounted /\ GumReject(c)) => error' # Null ]_vars

\* C20: a failure of getUserMedia or of the model load during init sets error
\* and ends the loading; from then on error keeps its value, the model stays
\* null, Mode stays Idle and no detector call is issued or pending.
C20_InitFailureIsFatal ==
  /\ [][ \A c \in CamSlots :
           (mounted /\ cams[c].init /\ GumReject(c)) => (error' # Null /\ ~isLoading') ]_vars
  /\ [][ (mounted /\ LoadModelReject) => (error' # Null /\ ~isLoading') ]_vars
  /\ [][ error # Null
           => (error' = error /\ model' = Null /\ Mode' = "Idle"
               /\ ~Issued(loops, loops')) ]_vars
  /\ [](error # Null => (model = Null /\ Mode = "Idle" /\ ~isLoading /\ Pending = {}))

\* the model load failed after the camera was granted: the error screen is up
C20_Witness ==
  /\ error = ModelError
  /\ initPc = "failed"
  /\ ~isLoading
  /\ stream # 0
  /\ model = Null

\* C21 (as claimed): at most one granted camera stream has tracks that were
\* not stopped, for every interleaving of camera switches with initialisation.
C21_SingleHandle == Cardinality(liveTracks) <= 1

\* the tap at height y is below the floor line drawn by the grid
\* (canvas.height * floorLevel)
BelowFloorLine(y, fl) == y * fl.d > InnerHeight * fl.n

\* C22 (as claimed): a tap appends a car iff placement mode is on and the tap
\* is below the floor line (display height times floorLevel); the car is at
\* the tap coordinate with rotation 0 and a palette colour; any other tap
\* leaves the list unchanged.
C22_TapPlacesBelowFloorLine ==
  [][ \A y \in TapYs, r \in RandomIndexes, dt \in 0..1 :
        HandleScreenTap(y, r, dt, "click")
          => IF placementMode /\ BelowFloorLine(y, floorLevel)
             THEN /\ Len(placedCars') = Len(placedCars) + 1
                  /\ SubSeq(placedCars', 1, Len(placedCars)) = placedCars
                  /\ LET car == placedCars'[Len(placedCars')] IN
                     /\ car.x = TapX /\ car.y = y /\ car.rotation = 0
                     /\ \E k \in 1..6 : car.color = Palette[k]
             ELSE placedCars' = placedCars ]_vars

\* the step is one of the three placement actions
PlacementStep ==
  \/ \E y \in TapYs, r \in RandomIndexes, dt \in 0..1, ev \in EventKinds :
       HandleScreenTap(y, r, dt, ev)
  \/ ClearPlacedCars
  \/ \E id \in 0..MaxClock : RemoveCar(id)

\* C23: the list of placed cars is changed only by a tap (which appends one
\* car or nothing), by removeCar(id) (which removes the cars with that id and
\* keeps the others in order) and by clearPlacedCars (which empties it); every
\* other step, cycles, start, toggle, exit, togglePlacementMode and camera
\* switching included, leaves it unchanged; the placement actions leave
\* isScanning, arMode, detectedCar and carPosition unchanged.
C23_PlacedCarsIndependent ==
  /\ [][ placedCars' # placedCars => PlacementStep ]_vars
  /\ [][ PlacementStep
           => UNCHANGED <<isScanning, arMode, detectedCar, carPosition>> ]_vars
  /\ [][ (\E y \in TapYs, r \in RandomIndexes, dt \in 0..1, ev \in EventKinds :
            HandleScreenTap(y, r, dt, ev))
           => \/ placedCars' = placedCars
              \/ /\ Len(placedCars') = Len(placedCars) + 1
                 /\ SubSeq(placedCars', 1, Len(placedCars)) = placedCars ]_vars
  /\ [][ ClearPlacedCars => placedCars' = << >> ]_vars
  /\ [][ \A id \in 0..MaxClock :
           RemoveCar(id)
             => /\ \A k \in 1..Len(placedCars') : placedCars'[k].id # id
                /\ Len(placedCars')
                     = Cardinality({k \in 1..Len(placedCars) : placedCars[k].id # id})
                /\ \A k \in 1..Len(placedCars') :
                     \E j \in k..Len(placedCars) : placedCars[j] = placedCars'[k] ]_vars

\* a placed car is still there after the exit from Locked and a new scan
\* that detected a vehicle
C23_Witness ==
  /\ placedCars # << >>
  /\ Mode = "Scanning"
  /\ detectedCar # Null

\* C24 (as claimed): after a successful initialisation the stream is attached
\* to the video element, so a scan started while the stream of the
\* initialisation is the live one (no camera switch was requested) leads to a
\* detector call, unless the user leaves Scanning, switches the camera or the
\* component unmounts.
C24_ScanLeadsToDetection ==
  (Mode = "Scanning" /\ mounted /\ liveTracks = {1} /\ FreeCams = CamSlots)
    ~> (Pending # {} \/ Mode # "Scanning" \/ ~mounted \/ liveTracks # {1})

\* C25 (as claimed): whenever Mode is Locked, detectedCar and carPosition are
\* non-null, also when a cycle started in Scanning completes after the lock.
C25_LockedHoldsDetection ==
  (mounted /\ Mode = "Locked") => (detectedCar # Null /\ carPosition # Null)

\* C26 (as claimed): whenever Mode is Idle, detectedCar and carPosition are
\* both null.
C26_IdleHoldsNothing ==
  (mounted /\ Mode = "Idle") => (detectedCar = Null /\ carPosition = Null)

\* C27 (as claimed): in every revision, detectedCar is null iff carPosition is
\* null.
C27_SetAndClearedTogether == (detectedCar = Null) <=> (carPosition = Null)

\* C28 (as claimed): the placed cars have pairwise distinct ids in every
\* reachable state, so removeCar(id) removes exactly one car and keeps the
\* others, for any timing of the taps.
C28_DistinctIds ==
  /\ [](\A j \in 1..Len(placedCars), k \in 1..Len(placedCars) :
          j # k => placedCars[j].id # placedCars[k].id)
  /\ [][ \A id \in 0..MaxClock :
           RemoveCar(id) => Len(placedCars') = Len(placedCars) - 1 ]_vars

\* C29 (as claimed): when the component unmounts, the tracks of the acquired
\* camera stream are stopped: no granted stream is live after the unmount.
C29_UnmountStopsStream ==
  [][ Unmount => liveTracks' = {} ]_vars

====
